---- MODULE Spec2Model ----
(***************************************************************************)
(* Road-network routing subsystem of Real-Estate-Mapping:                  *)
(* backend/src/analysis/customHotspotAnalysis.js (routing section, class   *)
(* RoadGraph, calculateWalkingTime) with its segment providers.            *)
(*                                                                         *)
(* Numbers.  Latitudes/longitudes are integers on a local planar grid      *)
(* whose unit is 0.1 m (about 1e-6 degree); toFixed(5) therefore rounds to *)
(* a multiple of 10.  Distances are whole metres (floor of the planar      *)
(* distance), so a test `d < 200` in the code and in the model agree.      *)
(* walkingDistance in a PathResult is kept in tenths of a metre so that    *)
(* the 1.2x and 1.3x multipliers stay integers.                            *)
(* The loop caps 2000 (iterations), 1000 (frontier scan) and 50000 (road   *)
(* segments) are scaled down to MAX_ITERATIONS, NODES_TO_CHECK_CAP and     *)
(* MAX_ROAD_SEGMENTS so that graphs of a handful of nodes cross them.      *)
(***************************************************************************)
EXTENDS Integers, Sequences, FiniteSets, TLC

\* ------------------------------------------------------------------------
\* Bounds of the model
\* ------------------------------------------------------------------------
MaxSegs == 6

MaxPending == 2

\* completed runs of buildGraph that a behaviour counts
MaxBuilds == 2

\* callers of getRoadNetworkData
MaxCallers == 2

\* ------------------------------------------------------------------------
\* Program constants
\* ------------------------------------------------------------------------
MAX_SNAP_DISTANCE == 500

INTERSECTION_THRESHOLD == 50

DIRECT_DISTANCE == 200

CLOSE_ENOUGH_DISTANCE == 100

CLOSEST_APPROACH_DISTANCE == 500

DIRECT_SHORT_DISTANCE == 500

\* findIntersections runs when the build has fewer roads than this
INTERSECTION_MAX_ROADS == 1000

\* 2000 in the source, scaled
MAX_ITERATIONS == 5

\* 1000 in the source, scaled
NODES_TO_CHECK_CAP == 4

\* 50000 in the source, scaled
MAX_ROAD_SEGMENTS == 5

\* JavaScript Infinity: larger than every distance the model can add up
Infinity == 1000000

\* JavaScript NaN (result of parseFloat on a non-numeric field)
NaN == 0 - 999999

\* ------------------------------------------------------------------------
\* Numbers
\* ------------------------------------------------------------------------
IsNaN(x) == x = NaN

RECURSIVE SqrtSearch(_, _, _)
SqrtSearch(n, lo, hi) ==
  IF lo >= hi THEN lo
  ELSE LET mid == (lo + hi + 1) \div 2
       IN IF mid * mid <= n THEN SqrtSearch(n, mid, hi)
          ELSE SqrtSearch(n, lo, mid - 1)

\* floor of the square root (of a squared distance below 4096 m)
ISqrt(n) == SqrtSearch(n, 0, 4095)

\* x + y of JavaScript numbers
Plus(x, y) ==
  IF IsNaN(x) \/ IsNaN(y) THEN NaN
  ELSE IF x = Infinity \/ y = Infinity THEN Infinity
  ELSE x + y

\* x < y of JavaScript numbers: false as soon as one side is NaN
Less(x, y) == ~IsNaN(x) /\ ~IsNaN(y) /\ x < y

\* a segment field that is absent or holds no number (undefined, "", "n/a")
Missing == 0 - 999998

\* parseFloat of a segment field: a number stays, anything else is NaN
parseFloat(raw) == IF raw = Missing THEN NaN ELSE raw

\* Number.prototype.toFixed(5): round to the nearest multiple of 1e-5 degree
toFixed5(v) ==
  IF IsNaN(v) THEN NaN
  ELSE IF v >= 0 THEN ((v + 5) \div 10) * 10
  ELSE 0 - (((0 - v) + 5) \div 10) * 10

\* the node key `${lat.toFixed(5)},${lng.toFixed(5)}`
NodeId(lat, lng) == <<toFixed5(lat), toFixed5(lng)>>

\* planar distance in whole metres between two points without NaN
PlanarMetres(p1, p2) ==
  LET dLat == p2.lat - p1.lat
      dLon == p2.lng - p1.lng
  IN ISqrt((dLat * dLat + dLon * dLon) \div 100)

Loc(lat, lng) == [lat |-> lat, lng |-> lng]

\* ------------------------------------------------------------------------
\* Road segments supplied by the providers
\* ------------------------------------------------------------------------
Seg(name, slat, slng, elat, elng, type, oneway) ==
  [name |-> name, start_lat |-> slat, start_lng |-> slng,
   end_lat |-> elat, end_lng |-> elng, type |-> type, oneway |-> oneway]

\* Segments the primary provider (getOsmRoads) can return: a chain
\* A0..A3 with 150 m hops, a detour A0-B-A2 of 250 m hops, a spur to E (58 m
\* away from A2, recorded 0.3 m off its 1e-5 degree grid point) and a
\* separate far link A4-F, 600 m long.
SegPool ==
  << Seg("c1", 0, 0, 0, 1500, "residential", FALSE),
     Seg("c2", 0, 1500, 0, 3000, "residential", FALSE),
     Seg("c3", 0, 3000, 0, 4500, "residential", FALSE),
     Seg("f1", 0, 6000, 0, 12000, "residential", FALSE),
     Seg("d1", 0, 0, 2000, 1500, "residential", FALSE),
     Seg("d2", 2000, 1500, 0, 3000, "residential", FALSE),
     Seg("e1", 0, 0, 303, 2498, "residential", FALSE) >>

\* Rows of the fallback provider (getMainRoads): CSV rows without a type
MainPool ==
  << Seg("m1", 0, 0, 0, 3000, "", FALSE) >>

\* the elements of pool whose index is in S, in pool order
SubPool(pool, S) ==
  LET idx == SelectSeq([i \in 1..Len(pool) |-> i], LAMBDA i : i \in S)
  IN [k \in 1..Len(idx) |-> pool[idx[k]]]

OsmDatasets ==
  { SubPool(SegPool, S) :
      S \in { T \in SUBSET (1..Len(SegPool)) : Cardinality(T) <= MaxSegs } }

MainDatasets == { SubPool(MainPool, S) : S \in SUBSET (1..Len(MainPool)) }

\* Segments for the build on its own: two-way and one-way roads of ordinary
\* and restricted classes, a row without start coordinates, an endpoint
\* 0.3 m off the node (0, 150 m) that rounds to the same key, and a primary
\* road that starts 30 m past the end of b4.
BuildPool ==
  << Seg("b1", 0, 0, 0, 1500, "residential", FALSE),
     Seg("b2", 0, 1500, 0, 3000, "motorway", TRUE),
     Seg("b3", 0, 3000, 0, 4500, "trunk", FALSE),
     Seg("b4", 0, 4500, 0, 6000, "residential", TRUE),
     Seg("b5", Missing, Missing, 0, 1500, "residential", FALSE),
     Seg("b6", 2000, 1500, 3, 1498, "service", FALSE),
     Seg("b7", 0, 6300, 0, 7500, "primary", FALSE) >>

BuildDatasets ==
  { SubPool(BuildPool, S) :
      S \in { T \in SUBSET (1..Len(BuildPool)) : Cardinality(T) <= MaxSegs } }

\* Coordinates a caller may ask a path between
QueryPoints ==
  { Loc(0, 0), Loc(0, 3000), Loc(0, 4500),
    Loc(1100, 12000), Loc(0 - 1100, 12600) }

\* great-circle distance in whole metres between two {lat, lng} points
calculateHaversineDistance(p1, p2) ==
  IF IsNaN(p1.lat) \/ IsNaN(p1.lng) \/ IsNaN(p2.lat) \/ IsNaN(p2.lng) THEN NaN
  ELSE PlanarMetres(p1, p2)

\* ------------------------------------------------------------------------
\* RoadGraph: nodes is the Map of node id to GraphNode, in insertion order
\* ------------------------------------------------------------------------
GraphNode(id, lat, lng) == [id |-> id, lat |-> lat, lng |-> lng, edges |-> <<>>]

NodeIds(ns) == { ns[i].id : i \in 1..Len(ns) }

HasNode(ns, id) == id \in NodeIds(ns)

NodeIndex(ns, id) == CHOOSE i \in 1..Len(ns) : ns[i].id = id

GetNode(ns, id) == ns[NodeIndex(ns, id)]

\* slip: the edge is kept by the target's coordinates, not by its node
PushEdge_RawTarget(ns, fromId, toId, distance, roadType) ==
  LET i == NodeIndex(ns, fromId)
      toNode == GetNode(ns, toId)
  IN [ns EXCEPT ![i].edges =
        Append(@, [to |-> <<toNode.lat, toNode.lng>>, distance |-> distance,
                   roadType |-> roadType])]

\* GraphNode.addEdge: push an edge; edge.to is the node object, kept by id.
\* roadName and travelTime are stored by the code and never read by routing.
PushEdge(ns, fromId, toId, distance, roadType) ==
  LET i == NodeIndex(ns, fromId)
  IN [ns EXCEPT ![i].edges =
        Append(@, [to |-> toId, distance |-> distance, roadType |-> roadType])]

addNode(ns, id, lat, lng) ==
  IF ~HasNode(ns, id) THEN Append(ns, GraphNode(id, lat, lng)) ELSE ns

RestrictedTypes == {"motorway", "motorway_link", "trunk", "trunk_link"}

addEdge(ns, fromId, toId, roadType) ==
  IF ~HasNode(ns, fromId) \/ ~HasNode(ns, toId) THEN ns
  ELSE LET fromNode == GetNode(ns, fromId)
           toNode   == GetNode(ns, toId)
           distance == calculateHaversineDistance(
                          Loc(fromNode.lat, fromNode.lng), Loc(toNode.lat, toNode.lng))
           fwd      == PushEdge(ns, fromId, toId, distance, roadType)
       IN IF roadType \notin RestrictedTypes
          THEN PushEdge(fwd, toId, fromId, distance, roadType)
          ELSE fwd

\* one pass of the `for (const road of batch)` body
AddRoad(ns, road) ==
  LET startLat == parseFloat(road.start_lat)
      startLng == parseFloat(road.start_lng)
      endLat   == parseFloat(road.end_lat)
      endLng   == parseFloat(road.end_lng)
      startId  == NodeId(startLat, startLng)
      endId    == NodeId(endLat, endLng)
      withStart == addNode(ns, startId, startLat, startLng)
      withEnd   == addNode(withStart, endId, endLat, endLng)
      roadType  == IF road.type = "" THEN "unknown" ELSE road.type
  IN addEdge(withEnd, startId, endId, roadType)

\* the batches are consecutive slices, so the roads are added in list order
RECURSIVE AddRoads(_, _)
AddRoads(ns, roads) ==
  IF roads = <<>> THEN ns
  ELSE AddRoads(AddRoad(ns, Head(roads)), Tail(roads))

typeOrder(type) ==
  CASE type = "motorway" -> 1
    [] type = "trunk" -> 2
    [] type = "primary" -> 3
    [] type = "secondary" -> 4
    [] type = "tertiary" -> 5
    [] type = "residential" -> 6
    [] type = "service" -> 7
    [] type = "footway" -> 8
    [] type = "path" -> 9
    [] OTHER -> 10

\* Array.prototype.sort with the typeOrder comparator (stable)
RECURSIVE InsertByType(_, _)
InsertByType(sorted, road) ==
  IF sorted = <<>> THEN <<road>>
  ELSE IF typeOrder(Head(sorted).type) <= typeOrder(road.type)
       THEN <<Head(sorted)>> \o InsertByType(Tail(sorted), road)
       ELSE <<road>> \o sorted

\* slip: the roads are cut to the limit in the provider's order
SortByType_Unsorted(roads) == roads

RECURSIVE SortByType(_)
SortByType(roads) ==
  IF roads = <<>> THEN <<>>
  ELSE InsertByType(SortByType(SubSeq(roads, 1, Len(roads) - 1)), roads[Len(roads)])

\* pointMap of findIntersections: one point per rounded-coordinate key, in
\* order of first appearance, with the names of the roads that end there
RECURSIVE PointMap(_, _, _)
PointMap(roads, i, points) ==
  IF i > Len(roads) THEN points
  ELSE LET road == roads[i]
           Put(ps, key, lat, lng) ==
             IF \E k \in 1..Len(ps) : ps[k].key = key
             THEN [k \in 1..Len(ps) |->
                     IF ps[k].key = key
                     THEN [ps[k] EXCEPT !.roads = @ \cup {road.name}]
                     ELSE ps[k]]
             ELSE Append(ps, [key |-> key, lat |-> lat, lng |-> lng,
                              roads |-> {road.name}])
           startLat == parseFloat(road.start_lat)
           startLng == parseFloat(road.start_lng)
           endLat   == parseFloat(road.end_lat)
           endLng   == parseFloat(road.end_lng)
       IN PointMap(roads, i + 1,
            Put(Put(points, NodeId(startLat, startLng), startLat, startLng),
                NodeId(endLat, endLng), endLat, endLng))

\* the pair loop of findIntersections: points i and j closer than the
\* threshold are both moved to their average position and share their roads
RECURSIVE MergeClose(_, _, _)
MergeClose(points, i, j) ==
  IF i > Len(points) THEN points
  ELSE IF j > Len(points) THEN MergeClose(points, i + 1, i + 2)
  ELSE LET distance == calculateHaversineDistance(
                         Loc(points[i].lat, points[i].lng),
                         Loc(points[j].lat, points[j].lng))
       IN IF Less(distance, INTERSECTION_THRESHOLD)
          THEN LET avgLat == (points[i].lat + points[j].lat) \div 2
                   avgLng == (points[i].lng + points[j].lng) \div 2
                   mergedRoads == points[i].roads \cup points[j].roads
                   merged(pt) == [pt EXCEPT !.lat = avgLat, !.lng = avgLng,
                                            !.roads = mergedRoads]
               IN MergeClose([points EXCEPT ![i] = merged(points[i]),
                                            ![j] = merged(points[j])], i, j + 1)
          ELSE MergeClose(points, i, j + 1)

\* findIntersections(roads): the merged points; the node map is not touched
findIntersections(roads) == MergeClose(PointMap(roads, 1, <<>>), 1, 2)

\* the roads the build works on: OSM roads, limited to MAX_ROAD_SEGMENTS by
\* priority; the main roads only when getOsmRoads threw
LoadRoads(osmResult, main) ==
  IF osmResult.ok
  THEN IF Len(osmResult.roads) > MAX_ROAD_SEGMENTS
       THEN SubSeq(SortByType(osmResult.roads), 1, MAX_ROAD_SEGMENTS)
       ELSE osmResult.roads
  ELSE main

\* ------------------------------------------------------------------------
\* State
\* ------------------------------------------------------------------------
VARIABLES
  osm,          \* outcome of getOsmRoads(): [ok, roads]
  mainRoads,    \* dataStore.mainRoads
  nodes,        \* roadGraph.nodes
  initialized,  \* roadGraph.initialized
  pending,      \* buildGraph calls suspended at `await getOsmRoads()`
  builds        \* buildGraph calls that resumed and ran to their return

VARIABLES
  roadNetworkData,  \* osmLoader's module-level object: [nodes, ways, initialized]
  parsers,          \* per caller: where its parseOsmData stands
  returned          \* per caller: what getRoadNetworkData gave it

loaderVars == <<roadNetworkData, parsers, returned>>

\* the graph and the road data it is built from
graphVars == <<osm, mainRoads, nodes, initialized, pending, builds, loaderVars>>

InitGraph ==
  /\ osm \in [ok : {TRUE}, roads : OsmDatasets] \cup [ok : {FALSE}, roads : {<<>>}]
  /\ mainRoads \in MainDatasets
  /\ (osm.ok /\ osm.roads # <<>> => mainRoads = <<>>)
  /\ nodes = <<>>
  /\ initialized = FALSE
  /\ pending = 0
  /\ builds = 0

\* slip: the call does not look at the flag
buildGraphCall_NoGuard(init, pend) == pend + 1

\* buildGraph up to its await: returns at once when initialized, else the
\* call is suspended on getOsmRoads()
buildGraphCall(init, pend) == IF init THEN pend ELSE pend + 1

\* buildGraph after its await, run to completion; the points returned by
\* findIntersections are bound to a local constant that nothing reads
buildGraphNodes(ns, osmResult, main) ==
  LET roads == LoadRoads(osmResult, main)
      intersections == IF Len(roads) < INTERSECTION_MAX_ROADS
                       THEN findIntersections(roads) ELSE <<>>
  IN IF Len(roads) = 0 THEN ns ELSE AddRoads(ns, roads)


\* slip: the flag is set even when no road was loaded
buildGraphInitialized_Always(init, osmResult, main) == TRUE

buildGraphInitialized(init, osmResult, main) ==
  IF Len(LoadRoads(osmResult, main)) = 0 THEN init ELSE TRUE

\* ------------------------------------------------------------------------
\* findShortestPath: pure parts
\* ------------------------------------------------------------------------
\* JavaScript null (no node)
Null == <<>>

RECURSIVE NearestScan(_, _, _, _)
NearestScan(ns, location, i, best) ==
  IF i > Len(ns) THEN best
  ELSE LET distance == calculateHaversineDistance(
                          Loc(location.lat, location.lng), Loc(ns[i].lat, ns[i].lng))
       IN NearestScan(ns, location, i + 1,
            IF Less(distance, best.distance)
            THEN [node |-> ns[i].id, distance |-> distance]
            ELSE best)

findNearestNode(ns, location, maxDistance) ==
  NearestScan(ns, location, 1, [node |-> Null, distance |-> maxDistance])

NoResult ==
  [success |-> FALSE, directDistance |-> 0, walkingDistance |-> 0,
   path |-> <<>>, method |-> "none"]

\* a TypeError escaping findShortestPath
Threw == [NoResult EXCEPT !.method = "threw"]

\* a walk of the predecessor chain that never ends
Hang == [NoResult EXCEPT !.method = "hang"]

\* the two-point results: walkingDistance = tenths/10 x directDistance
TwoPointResult(s, e, directDistance, tenths, method) ==
  [success |-> TRUE, directDistance |-> directDistance,
   walkingDistance |-> tenths * directDistance,
   path |-> <<Loc(s.lat, s.lng), Loc(e.lat, e.lng)>>, method |-> method]


\* slip: the short-circuit applies the estimate multiplier
DirectResult_Estimated(s, e, directDistance) ==
  TwoPointResult(s, e, directDistance, 13, "direct")

DirectResult(s, e, directDistance) ==
  TwoPointResult(s, e, directDistance, 10, "direct")


\* slip: the snap-failure estimate uses the short multiplier
EstimateResult_Short(s, e, directDistance) ==
  TwoPointResult(s, e, directDistance, 12, "estimate")

EstimateResult(s, e, directDistance) ==
  TwoPointResult(s, e, directDistance, 13, "estimate")

SnapFailed(sn, en) ==
  \/ sn.node = Null
  \/ en.node = Null
  \/ sn.distance > MAX_SNAP_DISTANCE
  \/ en.distance > MAX_SNAP_DISTANCE


\* slip: the same-node result reports the direct distance
SameNodeResult_Direct(ns, s, e, directDistance, sn, en) ==
  LET n == GetNode(ns, sn.node)
  IN [success |-> TRUE, directDistance |-> directDistance,
      walkingDistance |-> 10 * directDistance,
      path |-> <<Loc(s.lat, s.lng), Loc(n.lat, n.lng), Loc(e.lat, e.lng)>>,
      method |-> "same-node"]

SameNodeResult(ns, s, e, directDistance, sn, en) ==
  LET n == GetNode(ns, sn.node)
  IN [success |-> TRUE, directDistance |-> directDistance,
      walkingDistance |-> 10 * (sn.distance + en.distance),
      path |-> <<Loc(s.lat, s.lng), Loc(n.lat, n.lng), Loc(e.lat, e.lng)>>,
      method |-> "same-node"]

\* nodes.keys() in insertion order
KeySeq(ns) == [i \in 1..Len(ns) |-> ns[i].id]

InitialDistances(ns, startId) ==
  [id \in NodeIds(ns) |-> IF id = startId THEN 0 ELSE Infinity]

Min(a, b) == IF a < b THEN a ELSE b

\* the unvisited entries the selection looks at
ScannedPrefix(unv) ==
  LET MAX_NODES_TO_CHECK == Min(NODES_TO_CHECK_CAP, Len(unv))
  IN IF Len(unv) <= MAX_NODES_TO_CHECK THEN unv
     ELSE SubSeq(unv, 1, MAX_NODES_TO_CHECK)

RECURSIVE SmallestScan(_, _, _, _)
SmallestScan(scan, dist, i, best) ==
  IF i > Len(scan) THEN best
  ELSE SmallestScan(scan, dist, i + 1,
         IF Less(dist[scan[i]], best.smallestDistance)
         THEN [currentId |-> scan[i], smallestDistance |-> dist[scan[i]]]
         ELSE best)

SelectCurrent(unv, dist) ==
  SmallestScan(ScannedPrefix(unv), dist, 1,
               [currentId |-> Null, smallestDistance |-> Infinity])

InSeq(x, seq) == \E i \in 1..Len(seq) : seq[i] = x

\* slip: the selected node stays in the set
Delete_Keep(seq, x) == seq

\* unvisited.delete
Delete(seq, x) == SelectSeq(seq, LAMBDA y : y # x)

\* slip: the predecessor is not recorded
MapSet_Drop(m, k, v) == m

\* previous.set
MapSet(m, k, v) == [x \in DOMAIN m \cup {k} |-> IF x = k THEN v ELSE m[x]]


\* slip: the tentative distance forgets the distance to the current node
RECURSIVE Relax_NoAccumulate(_, _, _, _, _)
Relax_NoAccumulate(edges, i, currentId, unv, dp) ==
  IF i > Len(edges) THEN dp
  ELSE LET neighborId == edges[i].to
           tentativeDistance == edges[i].distance
       IN IF ~InSeq(neighborId, unv) THEN Relax_NoAccumulate(edges, i + 1, currentId, unv, dp)
          ELSE IF Less(tentativeDistance, dp.distances[neighborId])
          THEN Relax_NoAccumulate(edges, i + 1, currentId, unv,
                 [distances |-> [dp.distances EXCEPT ![neighborId] = tentativeDistance],
                  previous  |-> MapSet(dp.previous, neighborId, currentId)])
          ELSE Relax_NoAccumulate(edges, i + 1, currentId, unv, dp)

\* the `for (const edge of currentNode.edges)` loop; dp = [distances, previous]
RECURSIVE Relax(_, _, _, _, _)
Relax(edges, i, currentId, unv, dp) ==
  IF i > Len(edges) THEN dp
  ELSE LET neighborId == edges[i].to
           tentativeDistance == Plus(dp.distances[currentId], edges[i].distance)
       IN IF ~InSeq(neighborId, unv) THEN Relax(edges, i + 1, currentId, unv, dp)
          ELSE IF Less(tentativeDistance, dp.distances[neighborId])
          THEN Relax(edges, i + 1, currentId, unv,
                 [distances |-> [dp.distances EXCEPT ![neighborId] = tentativeDistance],
                  previous  |-> MapSet(dp.previous, neighborId, currentId)])
          ELSE Relax(edges, i + 1, currentId, unv, dp)

\* the backward walk `while (current !== startNearest.node.id)`; acc is the
\* path pushed so far.  A chain longer than the node count is a cycle.
RECURSIVE WalkBack(_, _, _, _, _, _)
WalkBack(ns, prev, current, startId, acc, steps) ==
  IF current = startId THEN [ok |-> TRUE, path |-> acc]
  ELSE IF steps > Len(ns) THEN [ok |-> FALSE, path |-> <<"hang">>]
  ELSE IF ~HasNode(ns, current) THEN [ok |-> FALSE, path |-> <<"threw">>]
  ELSE LET node == GetNode(ns, current)
           acc2 == Append(acc, Loc(node.lat, node.lng))
       IN IF current \notin DOMAIN prev THEN [ok |-> TRUE, path |-> acc2]
          ELSE WalkBack(ns, prev, prev[current], startId, acc2, steps + 1)

Reverse(seq) == [i \in 1..Len(seq) |-> seq[Len(seq) + 1 - i]]

\* path reconstruction and the final return
DijkstraResult(ns, s, e, directDistance, sn, en, dist, prev) ==
  LET endNode   == GetNode(ns, en.node)
      startNode == GetNode(ns, sn.node)
      walk == WalkBack(ns, prev, en.node, sn.node,
                       <<Loc(e.lat, e.lng), Loc(endNode.lat, endNode.lng)>>, 0)
  IN IF ~walk.ok
     THEN (IF walk.path = <<"hang">> THEN Hang ELSE Threw)
     ELSE [success |-> TRUE, directDistance |-> directDistance,
           walkingDistance |->
             10 * Plus(dist[en.node], sn.distance + en.distance),
           path |-> Reverse(walk.path \o
                      <<Loc(startNode.lat, startNode.lng), Loc(s.lat, s.lng)>>),
           method |-> "dijkstra"]

MaxIterationsResult(s, e, directDistance) ==
  TwoPointResult(s, e, directDistance, 13, "max-iterations")


\* slip: the short-distance branch is missing
UnreachableResult_NoShort(s, e, directDistance) ==
  TwoPointResult(s, e, directDistance, 13, "no-path")

\* slip: an unreachable destination raises instead of degrading
UnreachableResult_Throws(s, e, directDistance) == Threw

UnreachableResult(s, e, directDistance) ==
  IF directDistance < DIRECT_SHORT_DISTANCE
  THEN TwoPointResult(s, e, directDistance, 12, "direct-short")
  ELSE TwoPointResult(s, e, directDistance, 13, "no-path")

\* calculateWalkingTime applied to a PathResult (walkingTime = distance / 1.4)
calculateWalkingTime(walkingInfo) ==
  [minutes    |-> (walkingInfo.walkingDistance + 420) \div 840,
   distance   |-> (walkingInfo.walkingDistance + 5) \div 10,
   isEstimate |-> walkingInfo.method # "dijkstra" /\ walkingInfo.method # "same-node",
   method     |-> walkingInfo.method]

\* TRAFFIC_FACTORS[trafficLevel] || TRAFFIC_FACTORS.medium, in tenths
TrafficFactor(level) ==
  CASE level = "low" -> 10
    [] level = "medium" -> 13
    [] level = "high" -> 18
    [] OTHER -> 13

\* the road class assumed from the direct distance
DrivingRoadType(directDistance) ==
  IF directDistance > 10000 THEN "motorway"
  ELSE IF directDistance > 5000 THEN "trunk"
  ELSE IF directDistance > 2000 THEN "primary"
  ELSE IF directDistance > 1000 THEN "secondary"
  ELSE IF directDistance > 500 THEN "tertiary"
  ELSE "residential"

\* DRIVING_SPEEDS[roadType] || DRIVING_SPEEDS.default, in tenths of m/s
DrivingSpeed(roadType) ==
  CASE roadType = "motorway" -> 278
    [] roadType = "trunk" -> 222
    [] roadType = "primary" -> 167
    [] roadType = "secondary" -> 139
    [] roadType = "tertiary" -> 111
    [] roadType = "residential" -> 83
    [] roadType = "service" -> 56
    [] OTHER -> 139

Max(a, b) == IF a > b THEN a ELSE b

\* Math.round(num / den) for num >= 0, den > 0
RoundDiv(num, den) == (2 * num + den) \div (2 * den)

NoDrivingResult ==
  [minutes |-> 0, distance |-> 0, isEstimate |-> FALSE, method |-> "none"]


\* slip: a drive too short to make sense is given no time at all
TooShortResult_Zero(directDistance) ==
  [minutes |-> 0, distance |-> directDistance, isEstimate |-> TRUE,
   method |-> "too-short-for-driving"]

\* calculateDrivingTime below 300 m
TooShortResult(directDistance) ==
  [minutes |-> 1, distance |-> directDistance, isEstimate |-> TRUE,
   method |-> "too-short-for-driving"]

\* calculateDrivingTime after calculateWalkingInfo has returned walkingInfo:
\* total seconds = (walkingDistance / speed) * factor + 20 * intersections,
\* kept as the fraction seconds / den
DrivingResult(walkingInfo, directDistance, level) ==
  LET speed == DrivingSpeed(DrivingRoadType(directDistance))
      intersections == walkingInfo.walkingDistance \div 5000
      seconds == walkingInfo.walkingDistance * TrafficFactor(level)
                   + 20 * intersections * 10 * speed
      den == 10 * speed
  IN [minutes |-> Max(1, RoundDiv(seconds, 60 * den)),
      distance |-> (walkingInfo.walkingDistance + 5) \div 10,
      isEstimate |-> walkingInfo.method # "dijkstra",
      method |-> walkingInfo.method,
      trafficLevel |-> level]

\* ------------------------------------------------------------------------
\* findShortestPath: the call in progress (JavaScript runs it to completion,
\* so no build continuation interleaves with it)
\* ------------------------------------------------------------------------
VARIABLES
  pc,             \* "idle", "loop" (at the while test), "after", "done"
  startLocation,
  endLocation,
  directDistance,
  startNearest,
  endNearest,
  distances,
  previous,
  unvisited,      \* the Set, in insertion order
  iterations,
  closestNodeToDestination,
  closestDistanceToDestination,
  exit,           \* how the while loop was left
  result          \* the returned PathResult

queryVars ==
  <<pc, startLocation, endLocation, directDistance, startNearest, endNearest,
    distances, previous, unvisited, iterations, closestNodeToDestination,
    closestDistanceToDestination, exit, result>>

searchVars ==
  <<distances, previous, unvisited, iterations, closestNodeToDestination,
    closestDistanceToDestination>>

\* calculateDrivingTime: the call in progress
VARIABLES
  trafficLevel,   \* its third argument; "none" when no call is in progress
  drivingResult   \* what it returned

drivingVars == <<trafficLevel, drivingResult>>

vars == <<graphVars, queryVars, drivingVars>>

NoDriving ==
  /\ trafficLevel = "none"
  /\ drivingResult = NoDrivingResult

\* ------------------------------------------------------------------------
\* osmLoader: the OSM file and the module-level road network
\* ------------------------------------------------------------------------
\* The file: three nodes, two road ways over them and one way that is not a
\* road
OsmFile ==
  [nodes |-> <<1, 2, 3>>,
   ways  |-> << [id |-> 10, highway |-> TRUE,  nodeRefs |-> <<1, 2>>],
                [id |-> 11, highway |-> TRUE,  nodeRefs |-> <<2, 3>>],
                [id |-> 12, highway |-> FALSE, nodeRefs |-> <<1, 3>>] >>]

Callers == 1..MaxCallers

\* the object parseOsmData assigns to roadNetworkData
EmptyNetwork == [nodes |-> {}, ways |-> <<>>, initialized |-> FALSE]

NotCalled == [phase |-> "idle", pos |-> 0]

NoLoader ==
  /\ roadNetworkData = EmptyNetwork
  /\ parsers = [c \in Callers |-> NotCalled]
  /\ returned = [c \in Callers |-> EmptyNetwork]

\* the `way` callback of the second pass: a road way with at least two of
\* its node references found in roadNetworkData.nodes is appended
wayCallback(network, way) ==
  LET found == SelectSeq(way.nodeRefs, LAMBDA nodeId : nodeId \in network.nodes)
  IN IF way.highway /\ Len(found) >= 2
     THEN [network EXCEPT !.ways = Append(@, [id |-> way.id, nodes |-> found])]
     ELSE network

NoSnap == [node |-> Null, distance |-> 0]

EmptyMap == [x \in {} |-> Null]

NoQuery ==
  /\ startLocation = Loc(0, 0)
  /\ endLocation = Loc(0, 0)
  /\ directDistance = 0
  /\ startNearest = NoSnap
  /\ endNearest = NoSnap
  /\ distances = EmptyMap
  /\ previous = EmptyMap
  /\ unvisited = <<>>
  /\ iterations = 0
  /\ closestNodeToDestination = Null
  /\ closestDistanceToDestination = Infinity
  /\ exit = "none"
  /\ result = NoResult

Init ==
  /\ InitGraph
  /\ pc = "idle"
  /\ NoQuery
  /\ NoDriving
  /\ NoLoader

\* initializeRoadGraph(): an explicit build call
InitializeRoadGraph ==
  /\ pc = "idle"
  /\ initialized \/ pending < MaxPending
  /\ pending' = buildGraphCall(initialized, pending)
  /\ UNCHANGED <<osm, mainRoads, nodes, initialized, builds, loaderVars,
                 queryVars, drivingVars>>

\* a suspended buildGraph call resumes after `await getOsmRoads()` and runs
\* to its end; it does not look at `initialized` again
BuildGraphResume ==
  /\ pc = "idle"
  /\ pending > 0
  /\ builds < MaxBuilds
  /\ pending' = pending - 1
  /\ builds' = builds + 1
  /\ nodes' = buildGraphNodes(nodes, osm, mainRoads)
  /\ initialized' = buildGraphInitialized(initialized, osm, mainRoads)
  /\ UNCHANGED <<osm, mainRoads, loaderVars, queryVars, drivingVars>>

\* roadGraph.findShortestPath(s, e) from its entry to the first return or to
\* the loop
calculateWalkingInfo(s, e) ==
  /\ pc = "idle"
  /\ initialized \/ pending < MaxPending
  /\ pending' = buildGraphCall(initialized, pending)
  /\ startLocation' = s
  /\ endLocation' = e
  /\ LET d  == calculateHaversineDistance(s, e)
         sn == findNearestNode(nodes, s, MAX_SNAP_DISTANCE)
         en == findNearestNode(nodes, e, MAX_SNAP_DISTANCE)
     IN /\ directDistance' = d
        /\ IF d < DIRECT_DISTANCE
           THEN /\ result' = DirectResult(s, e, d)
                /\ pc' = "done"
                /\ UNCHANGED <<startNearest, endNearest, searchVars>>
           ELSE /\ startNearest' = sn
                /\ endNearest' = en
                /\ IF SnapFailed(sn, en)
                   THEN /\ result' = EstimateResult(s, e, d)
                        /\ pc' = "done"
                        /\ UNCHANGED searchVars
                   ELSE IF sn.node = en.node
                   THEN /\ result' = SameNodeResult(nodes, s, e, d, sn, en)
                        /\ pc' = "done"
                        /\ UNCHANGED searchVars
                   ELSE /\ distances' = InitialDistances(nodes, sn.node)
                        /\ unvisited' = KeySeq(nodes)
                        /\ pc' = "loop"
                        /\ UNCHANGED <<result, previous, iterations,
                                       closestNodeToDestination,
                                       closestDistanceToDestination>>
  /\ UNCHANGED <<osm, mainRoads, nodes, initialized, builds, loaderVars, exit>>

\* a walking query: calculateWalkingTime / calculateWalkingInfo
FindShortestPath(s, e) ==
  /\ calculateWalkingInfo(s, e)
  /\ UNCHANGED drivingVars

\* one pass of the body of the main Dijkstra loop
LoopIteration ==
  /\ pc = "loop"
  /\ Len(unvisited) > 0 /\ iterations < MAX_ITERATIONS
  /\ iterations' = iterations + 1
  /\ LET sel == SelectCurrent(unvisited, distances)
         currentId == sel.currentId
     IN IF currentId = Null \/ sel.smallestDistance = Infinity
        THEN /\ exit' = "stuck"
             /\ pc' = "after"
             /\ UNCHANGED <<distances, previous, unvisited,
                            closestNodeToDestination, closestDistanceToDestination>>
        ELSE IF currentId = endNearest.node
        THEN /\ exit' = "dest"
             /\ pc' = "after"
             /\ UNCHANGED <<distances, previous, unvisited,
                            closestNodeToDestination, closestDistanceToDestination>>
        ELSE LET unv == Delete(unvisited, currentId)
                 currentNode == GetNode(nodes, currentId)
                 endNode == GetNode(nodes, endNearest.node)
                 directDistanceToDestination ==
                   calculateHaversineDistance(
                     Loc(currentNode.lat, currentNode.lng),
                     Loc(endNode.lat, endNode.lng))
                 closer == Less(directDistanceToDestination,
                                closestDistanceToDestination)
             IN /\ unvisited' = unv
                /\ closestDistanceToDestination' =
                     IF closer THEN directDistanceToDestination
                     ELSE closestDistanceToDestination
                /\ closestNodeToDestination' =
                     IF closer THEN currentId ELSE closestNodeToDestination
                /\ IF Less(directDistanceToDestination, CLOSE_ENOUGH_DISTANCE)
                   THEN /\ distances' =
                             [distances EXCEPT ![endNearest.node] =
                                Plus(distances[currentId], directDistanceToDestination)]
                        /\ previous' = MapSet(previous, endNearest.node, currentId)
                        /\ exit' = "close-enough"
                        /\ pc' = "after"
                   ELSE LET dp == Relax(currentNode.edges, 1, currentId, unv,
                                        [distances |-> distances, previous |-> previous])
                        IN /\ distances' = dp.distances
                           /\ previous' = dp.previous
                           /\ UNCHANGED <<exit, pc>>
  /\ UNCHANGED <<graphVars, startLocation, endLocation, directDistance,
                 startNearest, endNearest, result, drivingVars>>

\* the while test fails
LoopEnd ==
  /\ pc = "loop"
  /\ ~(Len(unvisited) > 0 /\ iterations < MAX_ITERATIONS)
  /\ exit' = IF Len(unvisited) > 0 THEN "cap" ELSE "exhausted"
  /\ pc' = "after"
  /\ UNCHANGED <<graphVars, startLocation, endLocation, directDistance,
                 startNearest, endNearest, searchVars, result, drivingVars>>

\* the closest-approach connection applies after the cap
UseClosestApproach ==
  /\ iterations >= MAX_ITERATIONS
  /\ closestNodeToDestination # Null
  /\ closestDistanceToDestination < CLOSEST_APPROACH_DISTANCE

\* everything after the loop: cap handling, unreachable check, reconstruction
AfterLoop ==
  /\ pc = "after"
  /\ LET dist == IF UseClosestApproach
                 THEN [distances EXCEPT ![endNearest.node] =
                         Plus(distances[closestNodeToDestination],
                              closestDistanceToDestination)]
                 ELSE distances
         prev == IF UseClosestApproach
                 THEN MapSet(previous, endNearest.node, closestNodeToDestination)
                 ELSE previous
     IN /\ distances' = dist
        /\ previous' = prev
        /\ result' =
             IF iterations >= MAX_ITERATIONS /\ ~UseClosestApproach
             THEN MaxIterationsResult(startLocation, endLocation, directDistance)
             ELSE IF dist[endNearest.node] = Infinity
             THEN UnreachableResult(startLocation, endLocation, directDistance)
             ELSE DijkstraResult(nodes, startLocation, endLocation, directDistance,
                                 startNearest, endNearest, dist, prev)
  /\ pc' = "done"
  /\ UNCHANGED <<graphVars, startLocation, endLocation, directDistance,
                 startNearest, endNearest, unvisited, iterations,
                 closestNodeToDestination, closestDistanceToDestination, exit,
                 drivingVars>>

\* the caller takes the result; the call's locals are gone
Return ==
  /\ pc = "done"
  /\ trafficLevel = "none"
  /\ pc' = "idle"
  /\ startLocation' = Loc(0, 0)
  /\ endLocation' = Loc(0, 0)
  /\ directDistance' = 0
  /\ startNearest' = NoSnap
  /\ endNearest' = NoSnap
  /\ distances' = EmptyMap
  /\ previous' = EmptyMap
  /\ unvisited' = <<>>
  /\ iterations' = 0
  /\ closestNodeToDestination' = Null
  /\ closestDistanceToDestination' = Infinity
  /\ exit' = "none"
  /\ result' = NoResult
  /\ UNCHANGED <<graphVars, drivingVars>>

Next ==
  \/ InitializeRoadGraph
  \/ BuildGraphResume
  \/ \E s \in QueryPoints, e \in QueryPoints : FindShortestPath(s, e)
  \/ LoopIteration
  \/ LoopEnd
  \/ AfterLoop
  \/ Return

Spec == Init /\ [][Next]_vars

\* ------------------------------------------------------------------------
\* The build and the snap on their own, over segments of every kind
\* ------------------------------------------------------------------------
\* Locations to snap: points near, at the limit of and beyond the reach of
\* the nodes, and the stored coordinate of every node of the graph
SnapPoints(ns) ==
  { Loc(0, 1000), Loc(0, 10990), Loc(0, 11000), Loc(0, 20000), Loc(1000, 1500) }
    \cup { Loc(ns[i].lat, ns[i].lng) : i \in 1..Len(ns) }

InitBuild ==
  /\ osm \in [ok : {TRUE}, roads : BuildDatasets] \cup [ok : {FALSE}, roads : {<<>>}]
  /\ mainRoads \in MainDatasets
  /\ nodes = <<>>
  /\ initialized = FALSE
  /\ pending = 0
  /\ builds = 0
  /\ pc = "idle"
  /\ NoQuery
  /\ NoDriving
  /\ NoLoader

\* roadGraph.findNearestNode(location) with the default maxDistance
FindNearestNode(location) ==
  /\ pc = "idle"
  /\ startLocation' = location
  /\ startNearest' = findNearestNode(nodes, location, MAX_SNAP_DISTANCE)
  /\ UNCHANGED <<graphVars, pc, endLocation, directDistance, endNearest,
                 searchVars, exit, result, drivingVars>>

NextBuild ==
  \/ InitializeRoadGraph
  \/ BuildGraphResume
  \/ \E location \in SnapPoints(nodes) : FindNearestNode(location)

SpecBuild == InitBuild /\ [][NextBuild]_vars

\* ------------------------------------------------------------------------
\* Driving-time calls
\* ------------------------------------------------------------------------
\* an empty graph, the chain, the chain with detour and spur, two components
DriveDatasets ==
  { SubPool(SegPool, S) : S \in { {}, {1, 2, 3}, {1, 2, 3, 5, 7}, {1, 4} } }

\* endpoints 250 m to 3.6 km apart
DrivePoints ==
  { Loc(0, 0), Loc(0, 2500), Loc(0, 4500), Loc(0, 12000), Loc(0, 36000) }

\* the three documented levels and one that is not in TRAFFIC_FACTORS
TrafficLevels == {"low", "medium", "high", "rush"}

InitDrive ==
  /\ osm \in [ok : {TRUE}, roads : DriveDatasets]
  /\ mainRoads = <<>>
  /\ nodes = <<>>
  /\ initialized = FALSE
  /\ pending = 0
  /\ builds = 0
  /\ pc = "idle"
  /\ NoQuery
  /\ NoDriving
  /\ NoLoader

\* calculateDrivingTime(s, e, level) up to its first return or to the loop
\* of the path search it starts
CalculateDrivingTime(s, e, level) ==
  /\ pc = "idle"
  /\ trafficLevel' = level
  /\ IF calculateHaversineDistance(s, e) < 300
     THEN /\ drivingResult' = TooShortResult(calculateHaversineDistance(s, e))
          /\ startLocation' = s
          /\ endLocation' = e
          /\ directDistance' = calculateHaversineDistance(s, e)
          /\ pc' = "drove"
          /\ UNCHANGED <<graphVars, startNearest, endNearest, searchVars,
                         exit, result>>
     ELSE /\ calculateWalkingInfo(s, e)
          /\ UNCHANGED drivingResult

\* calculateDrivingTime from the return of calculateWalkingInfo to its own
DrivingTimeFromPath ==
  /\ pc = "done"
  /\ trafficLevel # "none"
  /\ drivingResult' = DrivingResult(result, directDistance, trafficLevel)
  /\ pc' = "drove"
  /\ UNCHANGED <<graphVars, startLocation, endLocation, directDistance,
                 startNearest, endNearest, searchVars, exit, result,
                 trafficLevel>>

\* the caller takes the driving time; the call's locals are gone
DrivingReturn ==
  /\ pc = "drove"
  /\ pc' = "idle"
  /\ startLocation' = Loc(0, 0)
  /\ endLocation' = Loc(0, 0)
  /\ directDistance' = 0
  /\ startNearest' = NoSnap
  /\ endNearest' = NoSnap
  /\ distances' = EmptyMap
  /\ previous' = EmptyMap
  /\ unvisited' = <<>>
  /\ iterations' = 0
  /\ closestNodeToDestination' = Null
  /\ closestDistanceToDestination' = Infinity
  /\ exit' = "none"
  /\ result' = NoResult
  /\ trafficLevel' = "none"
  /\ drivingResult' = NoDrivingResult
  /\ UNCHANGED graphVars

NextDrive ==
  \/ InitializeRoadGraph
  \/ BuildGraphResume
  \/ \E s \in DrivePoints, e \in DrivePoints, level \in TrafficLevels :
       CalculateDrivingTime(s, e, level)
  \/ LoopIteration
  \/ LoopEnd
  \/ AfterLoop
  \/ DrivingTimeFromPath
  \/ DrivingReturn

SpecDrive == InitDrive /\ [][NextDrive]_vars

\* ------------------------------------------------------------------------
\* A process that starts without road data and obtains it later
\* ------------------------------------------------------------------------
\* the chain, the chain with detour and spur, two components
RetryDatasets ==
  { SubPool(SegPool, S) : S \in { {1, 2, 3}, {1, 2, 3, 5, 7}, {1, 4} } }

InitRetry ==
  /\ osm = [ok |-> FALSE, roads |-> <<>>]
  /\ mainRoads = <<>>
  /\ nodes = <<>>
  /\ initialized = FALSE
  /\ pending = 0
  /\ builds = 0
  /\ pc = "idle"
  /\ NoQuery
  /\ NoDriving
  /\ NoLoader

\* the OSM file was missing and the download had failed; now downloadOsmData
\* succeeds, so that getOsmRoads() returns segments from here on
DownloadOsmData ==
  /\ pc = "idle"
  /\ ~osm.ok
  /\ osm' \in [ok : {TRUE}, roads : RetryDatasets]
  /\ UNCHANGED <<mainRoads, nodes, initialized, pending, builds, loaderVars,
                 queryVars, drivingVars>>

NextRetry ==
  \/ InitializeRoadGraph
  \/ BuildGraphResume
  \/ DownloadOsmData
  \/ \E s \in QueryPoints, e \in QueryPoints : FindShortestPath(s, e)
  \/ LoopIteration
  \/ LoopEnd
  \/ AfterLoop
  \/ Return

SpecRetry == InitRetry /\ [][NextRetry]_vars

\* ------------------------------------------------------------------------
\* Concurrent calls of getRoadNetworkData
\* ------------------------------------------------------------------------
InitOsm ==
  /\ osm = [ok |-> FALSE, roads |-> <<>>]
  /\ mainRoads = <<>>
  /\ nodes = <<>>
  /\ initialized = FALSE
  /\ pending = 0
  /\ builds = 0
  /\ pc = "idle"
  /\ NoQuery
  /\ NoDriving
  /\ NoLoader

otherVars ==
  <<osm, mainRoads, nodes, initialized, pending, builds, queryVars, drivingVars>>

\* getRoadNetworkData() up to its first suspension: with the data
\* initialized it returns the module-level object; otherwise parseOsmData
\* replaces that object by an empty one and starts the first pass
GetRoadNetworkData(c) ==
  /\ parsers[c].phase = "idle"
  /\ IF roadNetworkData.initialized
     THEN /\ returned' = [returned EXCEPT ![c] = roadNetworkData]
          /\ parsers' = [parsers EXCEPT ![c] = [phase |-> "returned", pos |-> 0]]
          /\ UNCHANGED roadNetworkData
     ELSE /\ roadNetworkData' = EmptyNetwork
          /\ parsers' = [parsers EXCEPT ![c] = [phase |-> "pass1", pos |-> 0]]
          /\ UNCHANGED returned
  /\ UNCHANGED otherVars

\* the `node` callback of caller c's first pass, for the next node of the
\* file: it writes into whatever object roadNetworkData names now
NodeCallback(c) ==
  /\ parsers[c].phase = "pass1"
  /\ parsers[c].pos < Len(OsmFile.nodes)
  /\ roadNetworkData' =
       [roadNetworkData EXCEPT !.nodes = @ \cup {OsmFile.nodes[parsers[c].pos + 1]}]
  /\ parsers' = [parsers EXCEPT ![c].pos = @ + 1]
  /\ UNCHANGED <<returned, otherVars>>

\* endDocument of the first pass: the second pass starts
FirstEndDocument(c) ==
  /\ parsers[c].phase = "pass1"
  /\ parsers[c].pos = Len(OsmFile.nodes)
  /\ parsers' = [parsers EXCEPT ![c] = [phase |-> "pass2", pos |-> 0]]
  /\ UNCHANGED <<roadNetworkData, returned, otherVars>>

\* the `way` callback of caller c's second pass, for the next way of the file
WayCallback(c) ==
  /\ parsers[c].phase = "pass2"
  /\ parsers[c].pos < Len(OsmFile.ways)
  /\ roadNetworkData' = wayCallback(roadNetworkData, OsmFile.ways[parsers[c].pos + 1])
  /\ parsers' = [parsers EXCEPT ![c].pos = @ + 1]
  /\ UNCHANGED <<returned, otherVars>>

\* endDocument of the second pass: the flag is set, the promise resolves and
\* getRoadNetworkData resumes and returns the module-level object
SecondEndDocument(c) ==
  /\ parsers[c].phase = "pass2"
  /\ parsers[c].pos = Len(OsmFile.ways)
  /\ roadNetworkData' = [roadNetworkData EXCEPT !.initialized = TRUE]
  /\ returned' = [returned EXCEPT ![c] = roadNetworkData']
  /\ parsers' = [parsers EXCEPT ![c] = [phase |-> "returned", pos |-> 0]]
  /\ UNCHANGED otherVars

NextOsm ==
  \/ \E c \in Callers : GetRoadNetworkData(c)
  \/ \E c \in Callers : NodeCallback(c)
  \/ \E c \in Callers : FirstEndDocument(c)
  \/ \E c \in Callers : WayCallback(c)
  \/ \E c \in Callers : SecondEndDocument(c)

SpecOsm == InitOsm /\ [][NextOsm]_vars

\* ------------------------------------------------------------------------
\* Notions the properties are stated with
\* ------------------------------------------------------------------------
\* the directed edges of the graph as <<from, to, distance>>
EdgeSet(ns) ==
  UNION { { <<ns[i].id, ns[i].edges[j].to, ns[i].edges[j].distance>> :
              j \in 1..Len(ns[i].edges) } : i \in 1..Len(ns) }

MinOf(S) == CHOOSE x \in S : \A y \in S : x <= y

RECURSIVE BellmanFord(_, _, _)
BellmanFord(ns, d, k) ==
  IF k = 0 THEN d
  ELSE BellmanFord(ns,
         [v \in NodeIds(ns) |->
            MinOf({d[v]} \cup
                  { d[ed[1]] + ed[3] :
                      ed \in { x \in EdgeSet(ns) :
                                 x[2] = v /\ d[x[1]] # Infinity /\ ~IsNaN(x[3]) } })],
         k - 1)

\* minimum total edge distance over all directed paths from a to b
ShortestDistance(ns, a, b) ==
  BellmanFord(ns, [v \in NodeIds(ns) |-> IF v = a THEN 0 ELSE Infinity], Len(ns))[b]

\* no graph node closer than limit metres to the location
NoNodeWithin(ns, location, limit) ==
  \A i \in 1..Len(ns) :
    LET d == calculateHaversineDistance(location, Loc(ns[i].lat, ns[i].lng))
    IN IsNaN(d) \/ d >= limit

\* the call has returned and both endpoints had been snapped to distinct nodes
Searched ==
  /\ pc = "done"
  /\ startNearest.node # Null
  /\ endNearest.node # Null
  /\ startNearest.node # endNearest.node

\* the coordinates of the predecessor chain, from the start node to node id
RECURSIVE ChainCoords(_, _, _, _, _)
ChainCoords(ns, prev, id, startId, fuel) ==
  LET here == <<Loc(GetNode(ns, id).lat, GetNode(ns, id).lng)>>
  IN IF id = startId \/ id \notin DOMAIN prev \/ fuel = 0 THEN here
     ELSE ChainCoords(ns, prev, prev[id], startId, fuel - 1) \o here

\* following the predecessor map from node id arrives at the start node
\* within fuel steps
RECURSIVE ReachesStart(_, _, _, _)
ReachesStart(prev, id, startId, fuel) ==
  IF id = startId THEN TRUE
  ELSE IF fuel = 0 \/ id \notin DOMAIN prev THEN FALSE
  ELSE ReachesStart(prev, prev[id], startId, fuel - 1)

\* the directed edges of the graph as <<from, to>>
EdgePairs(ns) == { <<ed[1], ed[2]>> : ed \in EdgeSet(ns) }

\* the node keys of a segment's start and end
StartKey(road) == NodeId(parseFloat(road.start_lat), parseFloat(road.start_lng))

EndKey(road) == NodeId(parseFloat(road.end_lat), parseFloat(road.end_lng))

\* the segment is flagged one-way and its class is restricted
OneWayRestricted(road) == road.oneway /\ road.type \in RestrictedTypes

\* all four coordinates of the segment are numbers
WellFormed(road) ==
  /\ road.start_lat # Missing /\ road.start_lng # Missing
  /\ road.end_lat # Missing /\ road.end_lng # Missing

\* distance from the location to node i of the graph
DistanceTo(ns, location, i) ==
  calculateHaversineDistance(location, Loc(ns[i].lat, ns[i].lng))

\* the nodes that lie within limit metres of the location
NodesWithin(ns, location, limit) ==
  { i \in 1..Len(ns) : Less(DistanceTo(ns, location, i), limit) }

\* snap is what a nearest-node search must return for the location
IsNearest(ns, location, limit, snap) ==
  IF NodesWithin(ns, location, limit) = {}
  THEN snap.node = Null
  ELSE /\ snap.node # Null
       /\ HasNode(ns, snap.node)
       /\ snap.distance = DistanceTo(ns, location, NodeIndex(ns, snap.node))
       /\ \A i \in NodesWithin(ns, location, limit) :
             snap.distance <= DistanceTo(ns, location, i)

\* neither provider has a segment to give
NoSegmentsAvailable ==
  /\ (~osm.ok \/ osm.roads = <<>>)
  /\ mainRoads = <<>>

DocumentedMethods ==
  {"direct", "estimate", "same-node", "dijkstra", "close-enough",
   "iteration-limit", "max-iterations", "direct-short", "no-path"}

\* ------------------------------------------------------------------------
\* Properties
\* ------------------------------------------------------------------------

\* C1: whatever the graph (empty, not yet built, built), a query whose
\* endpoints are less than 200 m apart returns method "direct", walking
\* distance equal to the direct distance (0 for start = end) and the path
\* [start, end]; nothing was snapped and no search was run.
C1_DirectUnder200 ==
  (pc = "done" /\ PlanarMetres(startLocation, endLocation) < 200)
    => /\ result = [success |-> TRUE,
                    directDistance |-> PlanarMetres(startLocation, endLocation),
                    walkingDistance |-> 10 * PlanarMetres(startLocation, endLocation),
                    path |-> <<startLocation, endLocation>>,
                    method |-> "direct"]
       /\ (startLocation = endLocation => result.walkingDistance = 0)
       /\ startNearest = NoSnap /\ endNearest = NoSnap
       /\ iterations = 0 /\ unvisited = <<>> /\ distances = EmptyMap

C1_Witness ==
  /\ pc = "done"
  /\ result.method = "direct"
  /\ startLocation # endLocation
  /\ initialized /\ Len(nodes) > 0

\* C2: on a graph of at most NODES_TO_CHECK_CAP (4, for 1000) nodes, when the
\* loop is left by selecting the destination node before the iteration cap,
\* the result is method "dijkstra" and its walking distance is the minimum
\* total edge distance over all directed paths from the start node to the
\* destination node plus the two snap distances.
C2_ExactIsShortest ==
  (Searched /\ exit = "dest" /\ Len(nodes) <= 4 /\ iterations < 5)
    => /\ result.method = "dijkstra"
       /\ result.walkingDistance =
            10 * (ShortestDistance(nodes, startNearest.node, endNearest.node)
                  + startNearest.distance + endNearest.distance)

C2_Witness ==
  /\ Searched /\ exit = "dest" /\ Len(nodes) <= 4 /\ iterations < 5
  /\ result.method = "dijkstra"
  /\ Len(result.path) >= 6
  /\ startNearest.distance + endNearest.distance > 0

\* C3: a search stopped by a finalized node within 100 m of the destination
\* node returns the tag "close-enough".
C3_CloseEnoughTag ==
  (Searched /\ exit = "close-enough") => result.method = "close-enough"

\* C4: a search stopped by the iteration cap returns "iteration-limit" when
\* the closest finalized node is within 500 m of the destination node, else
\* "max-iterations" with walking distance 1.3 x direct distance; never the
\* exact-search tag.
C4_IterationCapTags ==
  (Searched /\ exit = "cap")
    => /\ result.method # "dijkstra"
       /\ IF closestNodeToDestination # Null /\ closestDistanceToDestination < 500
          THEN result.method = "iteration-limit"
          ELSE /\ result.method = "max-iterations"
               /\ result.walkingDistance = 13 * directDistance

\* C5: however many build calls were started before initialization
\* completed, the graph is the one a single build produces (same nodes, same
\* edge lists, no duplicated edge).
C5_SegmentsProcessedOnce ==
  initialized => nodes = AddRoads(<<>>, LoadRoads(osm, mainRoads))

\* C6: a query of direct distance >= 200 m with an endpoint that has no graph
\* node within 500 m (always so on a zero-node graph) returns method
\* "estimate", walking distance 1.3 x direct distance and the path
\* [start, end]; calculateWalkingTime reports isEstimate = true.
C6_SnapFailureEstimate ==
  (/\ pc = "done"
   /\ PlanarMetres(startLocation, endLocation) >= 200
   /\ \/ NoNodeWithin(nodes, startLocation, 500)
      \/ NoNodeWithin(nodes, endLocation, 500))
    => /\ result = [success |-> TRUE,
                    directDistance |-> PlanarMetres(startLocation, endLocation),
                    walkingDistance |-> 13 * PlanarMetres(startLocation, endLocation),
                    path |-> <<startLocation, endLocation>>,
                    method |-> "estimate"]
       /\ calculateWalkingTime(result).isEstimate

C6_Witness ==
  /\ pc = "done"
  /\ result.method = "estimate"
  /\ Len(nodes) > 0
  /\ ~NoNodeWithin(nodes, startLocation, 500)
  /\ NoNodeWithin(nodes, endLocation, 500)

\* C7: both endpoints snapped, the loop ended below the iteration cap and the
\* destination's tentative distance is still infinite: the result is
\* "direct-short" with 1.2 x direct distance when the direct distance is
\* under 500 m, else "no-path" with 1.3 x direct distance; nothing is thrown
\* and the exact-search tag is not returned.
C7_UnreachableFallback ==
  (Searched /\ iterations < 5 /\ distances[endNearest.node] = Infinity)
    => /\ result.success
       /\ result.path = <<startLocation, endLocation>>
       /\ IF PlanarMetres(startLocation, endLocation) < 500
          THEN /\ result.method = "direct-short"
               /\ result.walkingDistance = 12 * PlanarMetres(startLocation, endLocation)
          ELSE /\ result.method = "no-path"
               /\ result.walkingDistance = 13 * PlanarMetres(startLocation, endLocation)

C7_Witness ==
  /\ Searched /\ iterations < 5 /\ distances[endNearest.node] = Infinity
  /\ result.method = "direct-short"
  /\ ShortestDistance(nodes, startNearest.node, endNearest.node) = Infinity

\* C8: every call returns (no exception, no endless walk, at most
\* MAX_ITERATIONS passes of the loop) a PathResult with success = true, a
\* finite non-negative walking distance and a documented method tag; on a
\* zero-node graph the tag is "direct" or "estimate".
C8_AlwaysTaggedResult ==
  /\ iterations <= 5
  /\ pc = "done"
       => /\ result.success
          /\ result.walkingDistance \in 0..(10 * Infinity - 1)
          /\ result.method \in DocumentedMethods
          /\ (Len(nodes) = 0 => result.method \in {"direct", "estimate"})

C8_Witness ==
  /\ pc = "done"
  /\ Len(nodes) = 0 /\ ~initialized
  /\ result.method = "estimate"

\* C9: both endpoints, at least 200 m apart, snap to the same node: the
\* result is "same-node", its walking distance is the sum of the two snap
\* distances, and no search was run.
C9_SameNode ==
  (/\ pc = "done"
   /\ PlanarMetres(startLocation, endLocation) >= 200
   /\ startNearest.node # Null
   /\ startNearest.node = endNearest.node)
    => /\ result.method = "same-node"
       /\ result.walkingDistance =
            10 * (PlanarMetres(startLocation, Loc(GetNode(nodes, startNearest.node).lat,
                                                  GetNode(nodes, startNearest.node).lng))
                  + PlanarMetres(endLocation, Loc(GetNode(nodes, endNearest.node).lat,
                                                GetNode(nodes, endNearest.node).lng)))
       /\ iterations = 0 /\ unvisited = <<>> /\ distances = EmptyMap
       /\ exit = "none"

C9_Witness ==
  /\ pc = "done"
  /\ result.method = "same-node"
  /\ result.walkingDistance = 2350
  /\ Len(nodes) > 1

\* C10: on a successful search the path is the original start coordinate,
\* then the coordinates of the predecessor chain from the start node to the
\* destination node, each node once and in order, then the original end
\* coordinate.
C10_PathIsChain ==
  (Searched /\ result.method = "dijkstra")
    => result.path =
         <<startLocation>>
         \o ChainCoords(nodes, previous, endNearest.node, startNearest.node, Len(nodes))
         \o <<endLocation>>

\* C11 (as stated): when the providers yield no segments, a completed build
\* leaves zero nodes and initialized = true.
C11_EmptyBuildInitialized ==
  (builds > 0 /\ NoSegmentsAvailable) => (nodes = <<>> /\ initialized)

\* C11: when the providers yield no segments, a completed build leaves zero
\* nodes and initialized = false; a later build call is therefore not a
\* no-op (it starts loading again), and every query returns "direct" or
\* "estimate".
C11_EmptyBuildRetried ==
  (builds > 0 /\ NoSegmentsAvailable)
    => /\ nodes = <<>>
       /\ ~initialized
       /\ (pc = "done" => /\ result.method \in {"direct", "estimate"}
                          /\ pending > 0)

C11_Witness ==
  /\ builds > 0 /\ NoSegmentsAvailable
  /\ ~osm.ok
  /\ pc = "done"
  /\ result.method = "estimate"
  /\ pending = 1

\* C12: after a completed build with the primary provider failing or
\* returning zero segments, the graph is the one built from the fallback
\* provider's rows; it is empty only when the fallback has no row either.
C12_FallbackUsed ==
  (builds > 0 /\ (~osm.ok \/ osm.roads = <<>>))
    => IF mainRoads = <<>> THEN nodes = <<>>
       ELSE NodeIds(nodes) = NodeIds(AddRoads(<<>>, mainRoads))

\* C13: in the built graph every processed segment has its forward edge,
\* and its reverse edge unless it is one-way and of a restricted class; when
\* no processed segment is one-way and restricted, every edge is mirrored.
C13_ReverseUnlessOneWayRestricted ==
  initialized
    => LET roads == LoadRoads(osm, mainRoads)
       IN /\ \A i \in 1..Len(roads) :
               /\ <<StartKey(roads[i]), EndKey(roads[i])>> \in EdgePairs(nodes)
               /\ (~OneWayRestricted(roads[i])
                     => <<EndKey(roads[i]), StartKey(roads[i])>> \in EdgePairs(nodes))
          /\ ((\A i \in 1..Len(roads) : ~OneWayRestricted(roads[i]))
                => \A p \in EdgePairs(nodes) : <<p[2], p[1]>> \in EdgePairs(nodes))

\* C14: a build over a non-empty segment list completes, and its graph is
\* the graph of the segments whose four coordinates are numeric: a segment
\* with a missing or non-numeric coordinate adds no node and no edge.
C14_MalformedSkipped ==
  (builds = 1 /\ Len(LoadRoads(osm, mainRoads)) > 0)
    => /\ initialized
       /\ nodes = AddRoads(<<>>, SelectSeq(LoadRoads(osm, mainRoads), WellFormed))

\* C15: once the graph is initialized and no build call is suspended, no
\* step (a build call by initializeRoadGraph or by a query included) changes
\* the nodes, their edge lists or the flag, or starts a new load.
C15_SecondBuildNoOp ==
  [][(initialized /\ pending = 0)
       => (nodes' = nodes /\ initialized' /\ pending' = 0 /\ builds' = builds)]_vars

C15_Witness ==
  /\ initialized /\ pending = 0 /\ builds = 1
  /\ pc = "done"
  /\ Len(nodes) > 2
  /\ nodes = AddRoads(<<>>, LoadRoads(osm, mainRoads))

\* C16: once initialized = true, no step of a query or of a build call
\* (one suspended before initialization completed included) changes the
\* nodes or their edge lists.
C16_ReadOnlyAfterInit ==
  [][initialized => nodes' = nodes]_vars

\* C17: every snap returns a node at minimal distance among all nodes when
\* some node lies within 500 m and a null node only when none does; a snap
\* of the stored coordinate of a graph node returns that node at distance 0.
C17_NearestNode ==
  [][(startNearest' # startNearest \/ startLocation' # startLocation)
       => /\ IsNearest(nodes, startLocation', MAX_SNAP_DISTANCE, startNearest')
          /\ \A i \in 1..Len(nodes) :
                startLocation' = Loc(nodes[i].lat, nodes[i].lng)
                  => startNearest' = [node |-> nodes[i].id, distance |-> 0]]_vars

\* C18: once a build has completed, every edge in every node's edge list
\* points to a node that is in the node map under its own id, whatever
\* build calls and queries follow.
C18_NoDanglingEdges ==
  initialized
    => \A i \in 1..Len(nodes) : \A j \in 1..Len(nodes[i].edges) :
         /\ HasNode(nodes, nodes[i].edges[j].to)
         /\ GetNode(nodes, nodes[i].edges[j].to).id = nodes[i].edges[j].to

C18_Witness ==
  /\ initialized /\ builds = 2
  /\ pc = "done" /\ result.method = "dijkstra"
  /\ HasNode(nodes, <<300, 2500>>)
  /\ Len(GetNode(nodes, <<300, 2500>>).edges) = 2

\* C19: calculateWalkingTime reports isEstimate = false when the path
\* outcome is the exact search, the close-enough termination or the
\* same-node case, and isEstimate = true for the direct, estimate,
\* iteration-cap (closest approach or not) and unreachable outcomes.
C19_IsEstimateFlag ==
  pc = "done"
    => LET isEstimate == calculateWalkingTime(result).isEstimate
       IN /\ (exit = "none" => (isEstimate <=> result.method # "same-node"))
          /\ ((exit \in {"dest", "close-enough"} /\ iterations < MAX_ITERATIONS)
                => ~isEstimate)
          /\ (exit = "cap" => isEstimate)
          /\ ((exit = "stuck" /\ iterations < MAX_ITERATIONS
                 /\ distances[endNearest.node] = Infinity) => isEstimate)

\* C20: a driving-time call returns minutes = 1 without a path search when
\* the direct distance is below 300 m, and minutes >= 1 for every other
\* pair of endpoints, traffic level and path outcome.
C20_DrivingMinutes ==
  pc = "drove"
    => /\ drivingResult.minutes >= 1
       /\ (PlanarMetres(startLocation, endLocation) < 300
             => /\ drivingResult.minutes = 1
                /\ result = NoResult
                /\ startNearest = NoSnap /\ endNearest = NoSnap
                /\ iterations = 0 /\ unvisited = <<>>)

C20_Witness ==
  /\ pc = "drove"
  /\ PlanarMetres(startLocation, endLocation) >= 300
  /\ result.method = "dijkstra"
  /\ trafficLevel = "rush"
  /\ drivingResult.minutes > 1

\* C21: a build that ends without a graph is not remembered as a failure.
\* Every build that runs to its end while no segment is available leaves
\* the flag and the graph as they were, and every build that runs to its end
\* once segments are available constructs the graph from them and sets
\* the flag, whatever builds failed before it; a query that returns after
\* that has its endpoints snapped against the built graph.
C21_RetryAfterEmptyBuild ==
  [][ /\ (builds' = builds + 1 =>
            IF Len(LoadRoads(osm, mainRoads)) = 0
            THEN initialized' = initialized /\ nodes' = nodes
            ELSE /\ initialized'
                 /\ nodes' = AddRoads(nodes, LoadRoads(osm, mainRoads)))
      /\ (~initialized => nodes = <<>>)
      /\ (pc' = "done" /\ initialized' /\ directDistance' >= DIRECT_DISTANCE =>
            /\ nodes' # <<>>
            /\ startNearest' =
                 findNearestNode(nodes', startLocation', MAX_SNAP_DISTANCE)
            /\ endNearest' =
                 findNearestNode(nodes', endLocation', MAX_SNAP_DISTANCE)) ]_vars

\* a first build found no segment, a second one made after the download
\* built the chain with detour and spur once, and a query was then routed
\* over it
C21_Witness ==
  /\ builds = 2
  /\ pending = 0
  /\ initialized
  /\ nodes = AddRoads(<<>>, SubPool(SegPool, {1, 2, 3, 5, 7}))
  /\ pc = "done"
  /\ result.method = "dijkstra"
  /\ result.walkingDistance = 4500

\* C22: a query issued while the graph is uninitialized and segments are
\* available is answered against the fully built graph: the endpoints it
\* snaps (when they are 200 m or more apart) are the nearest nodes of the
\* graph built from the available segments, not of an empty node set.
C22_BuiltBeforeSnap ==
  [][ ( /\ pc = "idle" /\ pc' # "idle"
        /\ ~initialized
        /\ Len(LoadRoads(osm, mainRoads)) > 0
        /\ directDistance' >= DIRECT_DISTANCE )
      => LET built == AddRoads(<<>>, LoadRoads(osm, mainRoads))
         IN /\ startNearest' =
                 findNearestNode(built, startLocation', MAX_SNAP_DISTANCE)
            /\ endNearest' =
                 findNearestNode(built, endLocation', MAX_SNAP_DISTANCE) ]_vars

\* C23: after the one build of a process over fewer than 1000 segments, any
\* two segment endpoints closer than the 50 m intersection threshold with
\* different rounded-coordinate keys are one node of the graph: the graph
\* does not hold a separate node under each of the two keys, and the points
\* findIntersections moved to a common position are not separate nodes.
C23_CloseEndpointsMerged ==
  (initialized /\ builds = 1 /\ pending = 0
     /\ Len(LoadRoads(osm, mainRoads)) < INTERSECTION_MAX_ROADS)
  => LET roads  == LoadRoads(osm, mainRoads)
         raw    == PointMap(roads, 1, <<>>)
         merged == findIntersections(roads)
     IN \A i \in 1..Len(raw) : \A j \in 1..Len(raw) :
          ( /\ i < j
            /\ Less(calculateHaversineDistance(Loc(raw[i].lat, raw[i].lng),
                                               Loc(raw[j].lat, raw[j].lng)),
                    INTERSECTION_THRESHOLD)
            /\ merged[i].lat = merged[j].lat /\ merged[i].lng = merged[j].lng )
          => ~(HasNode(nodes, raw[i].key) /\ HasNode(nodes, raw[j].key))

\* C24: the search loop terminates within min(MAX_ITERATIONS, number of
\* nodes) iterations: every pass of the loop body either leaves the loop
\* with the unvisited set as it was, or removes exactly one node from the
\* unvisited set, and the iteration count never exceeds the cap or the
\* number of nodes of the graph.
C24_LoopBounded ==
  [][ iterations' = iterations + 1 =>
        /\ \/ pc' = "after" /\ unvisited' = unvisited
           \/ /\ Len(unvisited') = Len(unvisited) - 1
              /\ \E x \in NodeIds(nodes) :
                   InSeq(x, unvisited) /\ unvisited' = Delete(unvisited, x)
        /\ iterations' <= Min(MAX_ITERATIONS, Len(nodes))
        /\ Len(unvisited') >= 1 ]_vars

\* a search over the four-node chain that took as many passes as the graph
\* has nodes and left the loop on selecting the destination
C24_Witness ==
  /\ pc = "done"
  /\ exit = "dest"
  /\ Len(nodes) = 4
  /\ iterations = Len(nodes)
  /\ Len(unvisited) = 1

\* C25: when the primary provider returns more segments than
\* MAX_ROAD_SEGMENTS, the build uses exactly MAX_ROAD_SEGMENTS of them, each
\* at most as often as the provider returned it, and no segment left out
\* has a road class of strictly higher priority than a segment that is
\* used; the graph of the first build is the one built from the used
\* segments.
C25_TruncationByPriority ==
  (osm.ok /\ Len(osm.roads) > MAX_ROAD_SEGMENTS)
  => LET used == LoadRoads(osm, mainRoads)
         Count(seq, r) == Cardinality({ i \in 1..Len(seq) : seq[i] = r })
         Omitted == { i \in 1..Len(osm.roads) :
                        Count(used, osm.roads[i]) < Count(osm.roads, osm.roads[i]) }
     IN /\ Len(used) = MAX_ROAD_SEGMENTS
        /\ \A k \in 1..Len(used) :
             Count(used, used[k]) <= Count(osm.roads, used[k])
        /\ \A i \in Omitted : \A k \in 1..Len(used) :
             typeOrder(osm.roads[i].type) >= typeOrder(used[k].type)
        /\ (builds = 1 /\ pending = 0 =>
              initialized /\ nodes = AddRoads(<<>>, used))

\* six segments were returned, the build used five: the primary road b7,
\* last in the provider's order, is in the graph and the service road b6
\* is not
C25_Witness ==
  /\ osm.ok
  /\ Len(osm.roads) = MAX_ROAD_SEGMENTS + 1
  /\ builds = 1
  /\ initialized
  /\ HasNode(nodes, NodeId(0, 7500))
  /\ ~HasNode(nodes, NodeId(2000, 1500))
  /\ \E i \in 1..Len(osm.roads) : osm.roads[i].name = "b6"

\* C26: whenever the loop was left because the selected node is the
\* destination node, at any iteration up to and including the cap, the code
\* after the loop leaves the destination's distance and predecessor as they
\* were and returns method "dijkstra" with walkingDistance = that tentative
\* distance plus both snap distances.
C26_ExactExitKept ==
  [][ (pc = "after" /\ exit = "dest" /\ pc' = "done") =>
        /\ distances' = distances
        /\ previous' = previous
        /\ result'.method = "dijkstra"
        /\ result'.walkingDistance =
             10 * (distances[endNearest.node]
                     + startNearest.distance + endNearest.distance) ]_vars

\* C27: if both endpoints were snapped to distinct nodes, the destination
\* node is reachable from the start node along directed edges and the loop
\* did not stop on the iteration cap, the query returns neither "no-path"
\* nor "direct-short", on graphs with more nodes than the sampling cap too.
C27_ReachableNeverNoPath ==
  ( /\ Searched
    /\ ShortestDistance(nodes, startNearest.node, endNearest.node) # Infinity
    /\ exit # "cap"
    /\ iterations < MAX_ITERATIONS )
  => result.method \notin {"no-path", "direct-short"}

\* C28: neither the close-enough exit nor the closest-approach connection
\* after the iteration cap makes the result worse than what the search
\* already knew: no step of a search raises the destination node's
\* tentative distance, from which the returned walkingDistance is computed.
C28_HopNeverWorse ==
  [][ ( /\ pc \in {"loop", "after"}
        /\ pc' \in {"loop", "after", "done"}
        /\ distances'[endNearest.node] # distances[endNearest.node] )
      => /\ Less(distances'[endNearest.node], distances[endNearest.node])
         /\ (pc' = "done" /\ result'.method = "dijkstra" =>
               result'.walkingDistance <=
                 10 * (distances[endNearest.node]
                         + startNearest.distance + endNearest.distance)) ]_vars

\* C29: whenever the destination node's tentative distance is finite after
\* the search and the call did not return the iteration-cap estimate, path
\* reconstruction terminates with a "dijkstra" result: the predecessor chain
\* from the destination node passes only through nodes of the graph and
\* arrives at the start node within as many steps as the graph has nodes, so
\* the walk never meets a node without predecessor.
C29_ReconstructionComplete ==
  ( /\ Searched
    /\ distances[endNearest.node] # Infinity
    /\ ~(iterations >= MAX_ITERATIONS /\ ~UseClosestApproach) )
  => /\ result.method = "dijkstra"
     /\ ReachesStart(previous, endNearest.node, startNearest.node, Len(nodes))
     /\ \A x \in DOMAIN previous :
          HasNode(nodes, x) /\ HasNode(nodes, previous[x])
     /\ startNearest.node \notin DOMAIN previous

\* a search stopped by the iteration cap and completed by the
\* closest-approach connection, reconstructed over a chain of four nodes
C29_Witness ==
  /\ Searched
  /\ exit = "cap"
  /\ UseClosestApproach
  /\ result.method = "dijkstra"
  /\ previous[endNearest.node] = closestNodeToDestination
  /\ Len(ChainCoords(nodes, previous, endNearest.node, startNearest.node,
                     Len(nodes))) = 4

\* C30: under any interleaving of getRoadNetworkData calls made before the
\* OSM data is initialized, the road network returned to every caller holds
\* each road way of the file exactly once with all of its nodes resolved,
\* and the network is never marked initialized while a parse is still
\* running.
C30_EveryCallerGetsWholeNetwork ==
  /\ \A c \in Callers :
       parsers[c].phase = "returned" =>
         \A k \in 1..Len(OsmFile.ways) :
           OsmFile.ways[k].highway =>
             /\ Cardinality({ i \in 1..Len(returned[c].ways) :
                                returned[c].ways[i].id = OsmFile.ways[k].id }) = 1
             /\ \A i \in 1..Len(returned[c].ways) :
                  returned[c].ways[i].id = OsmFile.ways[k].id =>
                    returned[c].ways[i].nodes = OsmFile.ways[k].nodeRefs
  /\ (roadNetworkData.initialized =>
        \A c \in Callers : parsers[c].phase \notin {"pass1", "pass2"})

====
